---- MODULE Spec2Model ----
(***************************************************************************)
(* Model of src/widgets/StringsWidget.cpp: the strings list (StringsModel), *)
(* its sort/filter proxy (StringsSortFilterProxyModel) and the refresh of   *)
(* the list by a background StringsTask (StringsWidget::refreshStrings,     *)
(* StringsWidget::stringSearchFinished).                                    *)
(*                                                                         *)
(* Threads: the GUI thread runs refreshStrings, the queued                 *)
(* stringSearchFinished slot, the filter/sort slots and the view's reads;  *)
(* every StringsTask runs on a pool thread and only emits its signal.      *)
(* A QString is a tuple of one-character strings.                          *)
(***************************************************************************)
EXTENDS Naturals, Sequences, FiniteSets

\* ------------------------------------------------------------------ bounds
\* Number of StringsTask objects refreshStrings may create in one behaviour.
MaxTasks == 3

\* ------------------------------------------------------------------ data
\* UTF-16 code units of the characters used (QString compares code units).
Code ==
  [c \in {"*", "?", "A", "B", "X", "a", "b", "c", "d", "e", "i", "s", "w", "x", "y", "z"} |->
     CASE c = "*" -> 42 [] c = "?" -> 63
       [] c = "A" -> 65 [] c = "B" -> 66 [] c = "X" -> 88
       [] c = "a" -> 97 [] c = "b" -> 98 [] c = "c" -> 99 [] c = "d" -> 100
       [] c = "e" -> 101 [] c = "i" -> 105 [] c = "s" -> 115 [] c = "w" -> 119
       [] c = "x" -> 120 [] c = "y" -> 121 [] c = "z" -> 122]

\* A match that tells upper case from lower case.
Fold_CaseSensitive(c) == c

\* Case folding used by a Qt::CaseInsensitive match.
Fold(c) ==
  IF Code[c] >= 65 /\ Code[c] <= 90
    THEN CHOOSE d \in DOMAIN Code : Code[d] = Code[c] + 32
    ELSE c

\* StringsModel::Columns
ColOFFSET == 0
ColSTRING == 1
ColTYPE == 2
ColLENGTH == 3
ColSIZE == 4
ColCOUNT == 5

AscendingOrder == 0
DescendingOrder == 1

Ascii == <<"a", "s", "c", "i", "i">>
Wide == <<"w", "i", "d", "e">>

\* StringDescription values the analysis may report.
SD(v, s, t, l, z) == [vaddr |-> v, string |-> s, type |-> t, length |-> l, size |-> z]

EAbc == SD(16, <<"a", "b", "c">>, Ascii, 3, 4)
EXyz == SD(32, <<"x", "y", "z">>, Ascii, 3, 4)
EAbcx == SD(48, <<"a", "b", "c", "x">>, Ascii, 4, 5)
EUpX == SD(64, <<"X", "a">>, Wide, 2, 6)
ELowB == SD(8, <<"b">>, Ascii, 1, 2)
ELowX == SD(24, <<"x", "a">>, Wide, 2, 4)

\* Results a StringsTask may deliver (Core()->getAllStrings()).
Datasets ==
  { <<>>,
    <<EAbc, EXyz>>,
    <<EAbcx>>,
    <<EUpX, ELowB, ELowX, EAbc>> }

\* Texts the quick filter may send (wildcard syntax: * and ?).
FilterTexts == { <<>>, <<"x">>, <<"B">>, <<"a", "?", "*", "x">> }

\* The default-constructed StringDescription a failed QVariant conversion gives.
NoEntry == SD(0, <<>>, <<>>, 0, 0)

\* ------------------------------------------------------------------ StringsModel
rowCount(s) == Len(s)

\* StringsModel::data(index, StringDescriptionRole).value<StringDescription>();
\* row is 1-based here.
data(s, row) == IF row - 1 >= rowCount(s) THEN NoEntry ELSE s[row]

\* ------------------------------------------------------------------ proxy: filter
RECURSIVE MatchHere(_, _)
\* The wildcard pattern p matches a prefix of s, case-insensitively.
MatchHere(p, s) ==
  IF p = <<>> THEN TRUE
  ELSE IF Head(p) = "*"
    THEN \E k \in 0..Len(s) : MatchHere(Tail(p), SubSeq(s, k + 1, Len(s)))
  ELSE /\ s # <<>>
       /\ \/ Head(p) = "?"
          \/ Fold(Head(p)) = Fold(Head(s))
       /\ MatchHere(Tail(p), Tail(s))

\* QString::contains(QRegExp): the pattern matches somewhere in s.
Contains(s, p) == \E k \in 0..Len(s) : MatchHere(p, SubSeq(s, k + 1, Len(s)))

filterAcceptsRow(s, row, f) == Contains(data(s, row).string, f)

\* ------------------------------------------------------------------ proxy: sort
RECURSIVE StrLess(_, _)
\* QString operator<: code units, lexicographic.
StrLess(a, b) ==
  IF b = <<>> THEN FALSE
  ELSE IF a = <<>> THEN TRUE
  ELSE IF Code[Head(a)] # Code[Head(b)] THEN Code[Head(a)] < Code[Head(b)]
  ELSE StrLess(Tail(a), Tail(b))

lessThan(left_str, right_str, column) ==
  CASE column = ColOFFSET -> left_str.vaddr < right_str.vaddr
    [] column = ColSTRING -> StrLess(left_str.string, right_str.string)
    [] column = ColTYPE -> StrLess(left_str.type, right_str.type)
    [] column = ColSIZE -> left_str.size < right_str.size
    [] column = ColLENGTH -> left_str.length < right_str.length
    [] OTHER -> left_str.vaddr < right_str.vaddr

\* A proxy that sorts with lessThan whatever the sort order.
Before_IgnoreOrder(s, r1, r2, column, order) ==
  lessThan(data(s, r1), data(s, r2), column)

\* The comparison the proxy sorts source rows with: lessThan for ascending
\* order, lessThan with the arguments swapped for descending order.
Before(s, r1, r2, column, order) ==
  IF order = AscendingOrder
    THEN lessThan(data(s, r1), data(s, r2), column)
    ELSE lessThan(data(s, r2), data(s, r1), column)

RECURSIVE UpperBound(_, _, _, _, _, _)
\* First position >= low of rows whose row sorts strictly after x (binary
\* search of the proxy over an ordered mapping), Len(rows) + 1 if none.
UpperBound(s, rows, x, low, column, order) ==
  IF low > Len(rows) THEN low
  ELSE IF Before(s, x, rows[low], column, order) THEN low
  ELSE UpperBound(s, rows, x, low + 1, column, order)

InsertAt(rows, p, x) == SubSeq(rows, 1, p - 1) \o <<x>> \o SubSeq(rows, p, Len(rows))

RECURSIVE StableSortFrom(_, _, _, _, _)
StableSortFrom(s, done, rest, column, order) ==
  IF rest = <<>> THEN done
  ELSE StableSortFrom(s, InsertAt(done, UpperBound(s, done, Head(rest), 1, column, order),
                                  Head(rest)),
                      Tail(rest), column, order)

\* QSortFilterProxyModelPrivate::sort_source_rows: std::stable_sort.
sort_source_rows(s, rows, column, order) == StableSortFrom(s, <<>>, rows, column, order)

RECURSIVE AcceptedFrom(_, _, _)
\* Source rows from..Len(s) accepted by the filter, in source order.
AcceptedFrom(s, from, f) ==
  IF from > Len(s) THEN <<>>
  ELSE (IF filterAcceptsRow(s, from, f) THEN <<from>> ELSE <<>>)
       \o AcceptedFrom(s, from + 1, f)

\* QSortFilterProxyModelPrivate::create_mapping
create_mapping(s, f, column, order) ==
  sort_source_rows(s, AcceptedFrom(s, 1, f), column, order)

RECURSIVE KeepAccepted(_, _, _)
\* The rows of a mapping the filter still accepts, in their proxy order
\* (remove_source_items of the rows that no longer pass).
KeepAccepted(s, rows, f) ==
  IF rows = <<>> THEN <<>>
  ELSE (IF filterAcceptsRow(s, Head(rows), f) THEN <<Head(rows)>> ELSE <<>>)
       \o KeepAccepted(s, Tail(rows), f)

Range(q) == {q[i] : i \in DOMAIN q}

RECURSIVE NewlyAccepted(_, _, _, _)
\* Source rows not in the mapping that the filter accepts, in source order.
NewlyAccepted(s, rows, from, f) ==
  IF from > Len(s) THEN <<>>
  ELSE (IF from \notin Range(rows) /\ filterAcceptsRow(s, from, f) THEN <<from>> ELSE <<>>)
       \o NewlyAccepted(s, rows, from + 1, f)

RECURSIVE IntervalLen(_, _, _, _, _, _, _)
\* How many of items, from the k-th on, go in front of proxy row p together
\* with the items before them.
IntervalLen(s, rows, items, p, k, column, order) ==
  IF k > Len(items) THEN k - 1
  ELSE IF p > Len(rows) THEN Len(items)
  ELSE IF Before(s, rows[p], items[k], column, order) THEN k - 1
  ELSE IntervalLen(s, rows, items, p, k + 1, column, order)

RECURSIVE MergeIn(_, _, _, _, _, _)
\* QSortFilterProxyModelPrivate::insert_source_items: the ordered new rows
\* are inserted into the ordered mapping, interval by interval; the result
\* replaces rows[low..].
MergeIn(s, rows, items, low, column, order) ==
  IF items = <<>> THEN SubSeq(rows, low, Len(rows))
  ELSE LET p == UpperBound(s, rows, Head(items), low, column, order)
           n == IntervalLen(s, rows, items, p, 2, column, order)
       IN SubSeq(rows, low, p - 1) \o SubSeq(items, 1, n)
            \o MergeIn(s, rows, SubSeq(items, n + 1, Len(items)), p, column, order)

\* A filter change that only drops rows and never adds the newly accepted ones.
filter_changed_RemoveOnly(s, rows, f, column, order) == KeepAccepted(s, rows, f)

\* QSortFilterProxyModelPrivate::filter_changed on an existing mapping.
filter_changed(s, rows, f, column, order) ==
  LET kept == KeepAccepted(s, rows, f)
      added == sort_source_rows(s, NewlyAccepted(s, rows, 1, f), column, order)
  IN MergeIn(s, kept, added, 1, column, order)

\* ------------------------------------------------------------------ state
VARIABLES
  strings,      \* StringsWidget::strings, the list StringsModel points to
  task,         \* StringsWidget::task: 0 is nullptr, otherwise the task's id
  launched,     \* number of StringsTask objects created so far (the newest id)
  tstate,       \* per task: "unborn", "running", "finished" or "failed"
  newest,       \* the list the newest task has emitted, <<>> before it does
  events,       \* queued stringSearchFinished calls posted to the GUI thread
  pc,           \* GUI thread: "idle", "waiting" (in task->wait()), "handler"
  hstep,        \* position in stringSearchFinished, 0 outside it
  cur,          \* the queued call being handled
  filter,       \* the proxy's filter pattern (wildcard syntax)
  sortColumn,   \* the proxy's sort column
  sortOrder,    \* the proxy's sort order
  mapped,       \* the proxy holds a mapping for the root index
  mapping,      \* that mapping: proxy row -> source row
  itemsNumber,  \* the count last passed to tree->showItemsNumber
  installed,    \* ids of the tasks whose lists were assigned to strings, in order
  notifiedId,   \* id of the task for whose list modelReset was emitted last
  resets,       \* number of model resets completed (modelReset emitted)
  lastRead      \* the row index and the entry of the last single-row read

vars ==
  <<strings, task, launched, tstate, newest, events, pc, hstep, cur, filter,
    sortColumn, sortOrder, mapped, mapping, itemsNumber, installed, notifiedId, resets, lastRead>>

coordVars == <<task, launched, tstate, newest, events>>
proxyVars == <<filter, sortColumn, sortOrder, mapped, mapping>>

TaskIds == 1..MaxTasks

NoEvent == [id |-> 0, strings |-> <<>>]

\* No single row has been read yet.
NoRead == [row |-> 0, value |-> NoEntry]

\* A widget that also routed the task's failure signal to the slot.
ConnectedSignals_AlsoFailure == {"stringSearchFinished", "failed"}

\* The signals of a StringsTask that refreshStrings connects to
\* StringsWidget::stringSearchFinished.
ConnectedSignals == {"stringSearchFinished"}

\* A slot that ends the model reset before it assigns the new list.
HandlerOrder_NotifyFirst ==
  <<"beginResetModel", "endResetModel", "assign", "showItemsNumber", "clearTask">>

\* A slot that assigns the new list without resetting the model.
HandlerOrder_NoReset == <<"assign", "showItemsNumber", "clearTask">>

\* The statements of StringsWidget::stringSearchFinished, in order
\* (adjustColumns/setColumnWidth only change column widths).
HandlerOrder ==
  <<"beginResetModel", "assign", "endResetModel", "showItemsNumber", "clearTask">>

\* AsyncTask::wait() returns once the task has reached a terminal state.
Terminated(t) == tstate[t] \in {"finished", "failed"}

\* The mapping the proxy answers rowCount()/index()/data() from: the cached
\* one, or one created on demand.
MappingNow ==
  IF mapped THEN mapping ELSE create_mapping(strings, filter, sortColumn, sortOrder)

\* The StringDescriptions the proxy shows for a mapping, in proxy order.
Rows(s, m) == [i \in 1..Len(m) |-> data(s, m[i])]

\* A widget that sorts by the string column from the start.
DefaultSortColumn_String == ColSTRING

\* ui->stringsTreeView->sortByColumn(StringsModel::OFFSET, Qt::AscendingOrder)
DefaultSortColumn == ColOFFSET

Init ==
  /\ strings = <<>>
  /\ task = 0
  /\ launched = 0
  /\ tstate = [t \in TaskIds |-> "unborn"]
  /\ newest = <<>>
  /\ events = <<>>
  /\ pc = "idle"
  /\ hstep = 0
  /\ cur = NoEvent
  /\ filter = <<>>
  /\ sortColumn = DefaultSortColumn
  /\ sortOrder = AscendingOrder
  /\ mapped = FALSE
  /\ mapping = <<>>
  /\ itemsNumber = 0
  /\ installed = <<>>
  /\ notifiedId = 0
  /\ resets = 0
  /\ lastRead = NoRead

\* ------------------------------------------------------------------ refresh
\* A refresh that empties the list when it starts the new task.
Launch_ClearsStrings ==
  /\ launched' = launched + 1
  /\ task' = launched + 1
  /\ tstate' = [tstate EXCEPT ![launched + 1] = "running"]
  /\ newest' = <<>>
  /\ pc' = "idle"
  /\ strings' = <<>>
  /\ UNCHANGED <<events, hstep, cur, proxyVars, itemsNumber, installed, notifiedId, resets, lastRead>>

\* task = new StringsTask; connect; start.
Launch ==
  /\ launched' = launched + 1
  /\ task' = launched + 1
  /\ tstate' = [tstate EXCEPT ![launched + 1] = "running"]
  /\ newest' = <<>>
  /\ pc' = "idle"
  /\ UNCHANGED <<strings, events, hstep, cur, proxyVars, itemsNumber, installed, notifiedId, resets, lastRead>>

\* A wait() that blocks whenever a task is set, finished or not.
MustWait_WheneverTaskSet == task # 0

\* if (task) task->wait(); has to block: a task is set and still running.
MustWait == IF task = 0 THEN FALSE ELSE ~Terminated(task)

\* StringsWidget::refreshStrings up to the launch or up to blocking in wait().
refreshStrings ==
  /\ pc = "idle"
  /\ launched < MaxTasks
  /\ \/ /\ MustWait
        /\ pc' = "waiting"
        /\ UNCHANGED <<strings, coordVars, hstep, cur, proxyVars, itemsNumber, installed, notifiedId, resets, lastRead>>
     \/ /\ ~MustWait
        /\ Launch

\* task->wait() returns; refreshStrings goes on to launch the new task.
waitReturns ==
  /\ pc = "waiting"
  /\ Terminated(task)
  /\ Launch

\* ------------------------------------------------------------------ StringsTask
\* A signal emitted on the pool thread reaches the widget as a queued call.
Emit(sig, t, d) ==
  IF sig \in ConnectedSignals THEN Append(events, [id |-> t, strings |-> d]) ELSE events

\* The task produced a list and emitted stringSearchFinished(list).
taskFinishes(t) ==
  /\ tstate[t] = "running"
  /\ \E d \in Datasets :
       /\ newest' = IF t = launched THEN d ELSE newest
       /\ events' = Emit("stringSearchFinished", t, d)
  /\ tstate' = [tstate EXCEPT ![t] = "finished"]
  /\ UNCHANGED <<strings, task, launched, pc, hstep, cur, proxyVars, itemsNumber, installed, notifiedId, resets, lastRead>>

\* The task could not produce a list and signalled failure instead.
taskFails(t) ==
  /\ tstate[t] = "running"
  /\ events' = Emit("failed", t, <<>>)
  /\ tstate' = [tstate EXCEPT ![t] = "failed"]
  /\ UNCHANGED <<strings, task, launched, newest, pc, hstep, cur, proxyVars,
                 itemsNumber, installed, notifiedId, resets, lastRead>>

\* ------------------------------------------------------------------ stringSearchFinished
\* The GUI event loop takes the oldest queued call and enters the slot.
deliver ==
  /\ pc = "idle"
  /\ events # <<>>
  /\ cur' = Head(events)
  /\ events' = Tail(events)
  /\ pc' = "handler"
  /\ hstep' = 1
  /\ UNCHANGED <<strings, task, launched, tstate, newest, proxyVars, itemsNumber, installed, notifiedId, resets, lastRead>>

At(stmt) == pc = "handler" /\ HandlerOrder[hstep] = stmt

\* Go on to the next statement of the slot, or return to the event loop.
Advance ==
  IF hstep < Len(HandlerOrder)
    THEN /\ hstep' = hstep + 1
         /\ pc' = pc
         /\ cur' = cur
    ELSE /\ hstep' = 0
         /\ pc' = "idle"
         /\ cur' = NoEvent

\* model->beginResetModel(): the proxy forwards modelAboutToBeReset.
beginResetModel ==
  /\ At("beginResetModel")
  /\ Advance
  /\ UNCHANGED <<strings, coordVars, proxyVars, itemsNumber, installed, notifiedId, resets, lastRead>>

\* this->strings = strings;
assignStrings ==
  /\ At("assign")
  /\ strings' = cur.strings
  /\ installed' = Append(installed, cur.id)
  /\ Advance
  /\ UNCHANGED <<coordVars, proxyVars, itemsNumber, notifiedId, resets, lastRead>>

\* A reset after which the proxy has also forgotten its filter text.
endResetModel_ClearsFilter ==
  /\ At("endResetModel")
  /\ mapping' = <<>>
  /\ mapped' = FALSE
  /\ filter' = <<>>
  /\ notifiedId' = cur.id
  /\ resets' = resets + 1
  /\ Advance
  /\ UNCHANGED <<strings, coordVars, sortColumn, sortOrder, itemsNumber,
                 installed, lastRead>>

\* model->endResetModel(): the proxy drops its mapping (_q_clearMapping) and
\* forwards modelReset to the tree view.
endResetModel ==
  /\ At("endResetModel")
  /\ mapping' = <<>>
  /\ mapped' = FALSE
  /\ notifiedId' = cur.id
  /\ resets' = resets + 1
  /\ Advance
  /\ UNCHANGED <<strings, coordVars, filter, sortColumn, sortOrder, itemsNumber,
                 installed, lastRead>>

\* tree->showItemsNumber(proxy_model->rowCount());
showItemsNumber ==
  /\ At("showItemsNumber")
  /\ mapping' = MappingNow
  /\ mapped' = TRUE
  /\ itemsNumber' = Len(MappingNow)
  /\ Advance
  /\ UNCHANGED <<strings, coordVars, filter, sortColumn, sortOrder,
                 installed, notifiedId, resets, lastRead>>

\* task = nullptr;
clearTask ==
  /\ At("clearTask")
  /\ task' = 0
  /\ Advance
  /\ UNCHANGED <<strings, launched, tstate, newest, events, proxyVars, itemsNumber, installed, notifiedId, resets, lastRead>>

\* ------------------------------------------------------------------ view client
\* A widget whose count lambda was connected before setFilterWildcard: the
\* count shown is the one from before the filter change.
filterTextChanged_CountFirst(text) ==
  /\ pc = "idle"
  /\ itemsNumber' = Len(MappingNow)
  /\ filter' = text
  /\ mapping' = IF mapped
                  THEN filter_changed(strings, mapping, text, sortColumn, sortOrder)
                  ELSE create_mapping(strings, text, sortColumn, sortOrder)
  /\ mapped' = TRUE
  /\ UNCHANGED <<strings, coordVars, pc, hstep, cur, sortColumn, sortOrder, installed, notifiedId, resets, lastRead>>

\* quickFilterView emits filterTextChanged(text): the proxy's
\* setFilterWildcard slot runs, then the lambda showing the item count.
filterTextChanged(text) ==
  /\ pc = "idle"
  /\ filter' = text
  /\ mapping' = IF mapped
                  THEN filter_changed(strings, mapping, text, sortColumn, sortOrder)
                  ELSE create_mapping(strings, text, sortColumn, sortOrder)
  /\ mapped' = TRUE
  /\ itemsNumber' = Len(mapping')
  /\ UNCHANGED <<strings, coordVars, pc, hstep, cur, sortColumn, sortOrder, installed, notifiedId, resets, lastRead>>

\* A header click that records the new section and order but leaves the
\* rows in the order they had.
sortByColumn_KeepsMapping(column, order) ==
  /\ pc = "idle"
  /\ <<column, order>> # <<sortColumn, sortOrder>>
  /\ sortColumn' = column
  /\ sortOrder' = order
  /\ UNCHANGED <<strings, coordVars, pc, hstep, cur, filter, mapped, mapping, itemsNumber, installed, notifiedId, resets, lastRead>>

\* A click on a header section: QSortFilterProxyModel::sort(column, order).
sortByColumn(column, order) ==
  /\ pc = "idle"
  /\ <<column, order>> # <<sortColumn, sortOrder>>
  /\ sortColumn' = column
  /\ sortOrder' = order
  /\ mapping' = IF mapped THEN sort_source_rows(strings, mapping, column, order)
                          ELSE mapping
  /\ UNCHANGED <<strings, coordVars, pc, hstep, cur, filter, mapped, itemsNumber, installed, notifiedId, resets, lastRead>>

\* The tree view paints: rowCount() and data() of every proxy row.
viewRead ==
  /\ pc = "idle"
  /\ mapping' = MappingNow
  /\ mapped' = TRUE
  /\ UNCHANGED <<strings, coordVars, pc, hstep, cur, filter, sortColumn, sortOrder,
                 itemsNumber, installed, notifiedId, resets, lastRead>>

Next ==
  \/ refreshStrings
  \/ waitReturns
  \/ \E t \in TaskIds : taskFinishes(t)
  \/ \E t \in TaskIds : taskFails(t)
  \/ deliver
  \/ beginResetModel
  \/ assignStrings
  \/ endResetModel
  \/ showItemsNumber
  \/ clearTask
  \/ \E text \in FilterTexts : filterTextChanged(text)
  \/ \E column \in ColOFFSET..ColSIZE, order \in {AscendingOrder, DescendingOrder} :
        sortByColumn(column, order)
  \/ viewRead

Spec == Init /\ [][Next]_vars

TypeOK ==
  /\ task \in 0..MaxTasks
  /\ launched \in 0..MaxTasks
  /\ pc \in {"idle", "waiting", "handler"}
  /\ hstep \in 0..Len(HandlerOrder)
  /\ mapped \in BOOLEAN

\* ------------------------------------------------------------------ properties
\* Nothing is pending: the GUI thread is in its event loop, no queued call
\* waits for delivery and no StringsTask is running.
Quiescent ==
  /\ pc = "idle"
  /\ events = <<>>
  /\ \A t \in TaskIds : tstate[t] # "running"

\* The slot has already assigned the list of the call it is handling.
AssignedInThisRun == pc = "handler" /\ cur.id \in Range(installed)

\* C1: a task superseded by a later refreshStrings never has its list
\* installed: whenever the slot assigns a list, the list is that of the newest
\* task created (so two refreshes in a row give one assignment, the second's).
C1_SupersededResultDiscarded == AssignedInThisRun => cur.id = launched

\* C2: at most one StringsTask of the widget is running at any time.
C2_AtMostOneTaskLive == Cardinality({t \in TaskIds : tstate[t] = "running"}) <= 1

\* C3: the newest request wins: when every task created has finished
\* successfully and nothing is pending, strings is the list the newest task
\* produced.
C3_NewestResultInstalled ==
  (Quiescent /\ launched >= 1 /\ \A t \in 1..launched : tstate[t] = "finished")
    => strings = newest

C5_FailureReturnsToIdle ==
  (Quiescent /\ launched >= 1 /\ tstate[launched] = "failed") => task = 0

\* ------------------------------------------------------------------ view properties
\* Source rows of s the filter f accepts.
AcceptedRows(s, f) == {i \in 1..Len(s) : filterAcceptsRow(s, i, f)}

\* rows holds exactly the entries of s that f accepts, each once.
IsViewOf(rows, s, f) ==
  /\ Len(rows) = Cardinality(AcceptedRows(s, f))
  /\ \A i \in AcceptedRows(s, f) : \E j \in DOMAIN rows : rows[j] = s[i]

\* Places where code on the GUI thread reads rows through the proxy: the
\* event loop (painting, the filter lambda) and line 218 of the slot.
ReadPoint == pc = "idle" \/ At("showItemsNumber")

\* What the proxy answers for proxy row i (1-based): the entry, or the
\* default-constructed one for an invalid index.
RowAt(i) ==
  LET m == MappingNow
  IN IF i > Len(m) THEN NoEntry ELSE data(strings, m[i])

Last(q) == q[Len(q)]

\* C6: in the slot, the list is assigned before modelReset is emitted and
\* task is cleared only after both: at the moment of the notification strings
\* already is the delivered list; from then on until the slot returns, the
\* rows a client reads are exactly those of the delivered list; and when task
\* is set to nullptr the notification for this delivery has been emitted.
C6_ReplaceThenNotifyThenIdle ==
  [][ /\ notifiedId' # notifiedId =>
           /\ strings' = cur.strings
           /\ installed' # <<>> /\ Last(installed') = cur.id
      /\ (pc = "handler" /\ notifiedId = cur.id) =>
           IsViewOf(Rows(strings, MappingNow), cur.strings, filter)
      /\ (At("clearTask") /\ hstep' # hstep) =>
           /\ strings = cur.strings
           /\ notifiedId = cur.id
           /\ task' = 0
    ]_vars

\* C6 witness: the slot is about to clear task after having assigned a
\* non-empty list and emitted modelReset for it.
C6_Witness ==
  /\ At("clearTask")
  /\ notifiedId = cur.id
  /\ strings = cur.strings
  /\ strings # <<>>
  /\ task = cur.id

\* C7: whenever GUI code can read through the proxy, the rows it gets are
\* exactly the accepted entries of the one list strings holds at that moment:
\* never a row taken through a mapping built for another list.
C7_ReadersSeeOneDataset ==
  ReadPoint => IsViewOf(Rows(strings, MappingNow), strings, filter)

\* C7 witness: line 218 of the slot reads the rows right after a non-empty list
\* replaced a different non-empty list while a filter was set.
C7_Witness ==
  /\ At("showItemsNumber")
  /\ Len(installed) >= 2
  /\ strings = cur.strings
  /\ Len(strings) >= 2
  /\ filter # <<>>
  /\ Len(MappingNow) >= 1

\* C8: once the GUI thread is out of the slot (and at line 218 inside it),
\* rowCount() of the proxy is the number of entries of strings that the current
\* filter accepts, and it is never greater than the length of strings.
C8_RowCountMatchesPredicate ==
  ReadPoint =>
    /\ Len(MappingNow) = Cardinality(AcceptedRows(strings, filter))
    /\ Len(MappingNow) <= rowCount(strings)

\* C8 witness: after a filter change, a sort change and two replacements the
\* view shows some but not all entries.
C8_Witness ==
  /\ pc = "idle"
  /\ mapped
  /\ Len(installed) >= 2
  /\ filter # <<>>
  /\ sortColumn # ColOFFSET
  /\ Len(mapping) >= 1
  /\ Len(mapping) < Len(strings)

\* a is not after b under the comparator of the current sort column and order.
NotAfter(a, b) ==
  IF sortOrder = AscendingOrder
    THEN ~lessThan(b, a, sortColumn)
    ELSE ~lessThan(a, b, sortColumn)

\* C9 (as claimed): consecutive rows a, b of the view satisfy a <= b under the
\* active comparator, and when they compare equal, a.vaddr <= b.vaddr.
C9_SortedWithAddressTieBreak ==
  ReadPoint =>
    \A i \in 1..(Len(MappingNow) - 1) :
      LET a == RowAt(i)
          b == RowAt(i + 1)
      IN /\ NotAfter(a, b)
         /\ (NotAfter(a, b) /\ NotAfter(b, a)) => a.vaddr <= b.vaddr

\* C9 (amended): consecutive rows a, b of the view satisfy a <= b under the
\* active comparator; nothing is said about rows that compare equal.
C9_SortedByComparator ==
  ReadPoint =>
    \A i \in 1..(Len(MappingNow) - 1) : NotAfter(RowAt(i), RowAt(i + 1))

\* C9 witness: a view of at least three rows, sorted in descending order by a
\* column other than the address, with two neighbours that compare equal.
C9_Witness ==
  /\ pc = "idle"
  /\ mapped
  /\ Len(mapping) >= 3
  /\ sortOrder = DescendingOrder
  /\ sortColumn # ColOFFSET
  /\ \E i \in 1..(Len(mapping) - 1) :
       /\ NotAfter(RowAt(i), RowAt(i + 1))
       /\ NotAfter(RowAt(i + 1), RowAt(i))
  /\ \E i \in 1..(Len(mapping) - 1) : ~NotAfter(RowAt(i + 1), RowAt(i))

\* C10: a step outside the slot that leaves the filter and the sort alone
\* (a read, a refresh, a task finishing or failing) changes no answer of the
\* proxy: every row index gives the same entry after it as before it.
C10_RowAtIdempotent ==
  [][ ( /\ pc # "handler"
        /\ pc' # "handler"
        /\ filter' = filter
        /\ sortColumn' = sortColumn
        /\ sortOrder' = sortOrder )
      => \A i \in 1..(Len(strings) + 1) : RowAt(i)' = RowAt(i)
    ]_vars

\* C10 witness: rows are shown while a superseded task's completion is still
\* queued and a newer task is running.
C10_Witness ==
  /\ pc = "idle"
  /\ mapped
  /\ Len(mapping) >= 2
  /\ events # <<>>
  /\ launched >= 2
  /\ tstate[launched] = "running"

\* ------------------------------------------------------------------ single-row reads
\* Largest proxy row (1-based) a client asks for.
MaxRow == 5

\* A read that answers the last row when the index is past the end.
rowAt_ClampsIndex(i) ==
  /\ pc = "idle"
  /\ mapping' = MappingNow
  /\ mapped' = TRUE
  /\ lastRead' = [row |-> i,
                  value |-> IF MappingNow = <<>> THEN NoEntry
                            ELSE IF i > Len(MappingNow)
                                   THEN data(strings, Last(MappingNow))
                                   ELSE data(strings, MappingNow[i])]
  /\ UNCHANGED <<strings, coordVars, pc, hstep, cur, filter, sortColumn, sortOrder,
                 itemsNumber, installed, notifiedId, resets>>

\* model()->index(row, column).data(...): the proxy builds its mapping if it
\* has none; an index past the last row is invalid and yields an empty
\* QVariant, a valid one is answered by StringsModel::data.
rowAt(i) ==
  /\ pc = "idle"
  /\ mapping' = MappingNow
  /\ mapped' = TRUE
  /\ lastRead' = [row |-> i, value |-> RowAt(i)]
  /\ UNCHANGED <<strings, coordVars, pc, hstep, cur, filter, sortColumn, sortOrder,
                 itemsNumber, installed, notifiedId, resets>>

\* The widget after its first refresh delivered list d, the filter text and
\* the sort section having been set before: the state Spec reaches by
\* filterTextChanged, sortByColumn, refreshStrings, taskFinishes(1), deliver
\* and the five statements of the slot.
AfterFirstRefresh(d, f, column, order) ==
  /\ strings = d
  /\ task = 0
  /\ launched = 1
  /\ tstate = [t \in TaskIds |-> IF t = 1 THEN "finished" ELSE "unborn"]
  /\ newest = d
  /\ events = <<>>
  /\ pc = "idle"
  /\ hstep = 0
  /\ cur = NoEvent
  /\ filter = f
  /\ sortColumn = column
  /\ sortOrder = order
  /\ mapped = TRUE
  /\ mapping = create_mapping(d, f, column, order)
  /\ itemsNumber = Len(create_mapping(d, f, column, order))
  /\ installed = <<1>>
  /\ notifiedId = 1
  /\ resets = 1
  /\ lastRead = NoRead

InitRead ==
  \/ Init
  \/ \E d \in Datasets, f \in FilterTexts,
        column \in ColOFFSET..ColSIZE, order \in {AscendingOrder, DescendingOrder} :
       AfterFirstRefresh(d, f, column, order)

NextRead ==
  \/ \E i \in 1..MaxRow : rowAt(i)
  \/ \E text \in FilterTexts : filterTextChanged(text)
  \/ \E column \in ColOFFSET..ColSIZE, order \in {AscendingOrder, DescendingOrder} :
        sortByColumn(column, order)

\* The view's clients alone: rows read one at a time between changes of the
\* filter text and of the sort section.
SpecRead == InitRead /\ [][NextRead]_vars

\* C11: reading proxy row i past the last row answers the empty entry at
\* once, reading a row within range answers the source entry the mapping has
\* at that place, and either read leaves the list, the filter, the sort
\* section and order, the row order and the refresh bookkeeping as they were.
C11_RowAtOutOfRangeIsEmpty ==
  [][lastRead' # lastRead =>
       /\ lastRead'.row > Len(MappingNow) => lastRead'.value = NoEntry
       /\ lastRead'.row <= Len(MappingNow) =>
            /\ MappingNow[lastRead'.row] \in 1..Len(strings)
            /\ lastRead'.value = strings[MappingNow[lastRead'.row]]
       /\ mapping' = MappingNow
       /\ strings' = strings
       /\ filter' = filter
       /\ sortColumn' = sortColumn
       /\ sortOrder' = sortOrder
       /\ coordVars' = coordVars
       /\ pc' = pc
       /\ installed' = installed]_vars

\* A row past the end of a filtered, non-empty view has just been read.
C11_Witness ==
  /\ lastRead.row > Len(MappingNow)
  /\ lastRead.row <= Len(strings)
  /\ Len(MappingNow) >= 1
  /\ lastRead.value = NoEntry
  /\ filter # <<>>

\* ------------------------------------------------------------------ freshness
\* The mapping the proxy would build from nothing for the current list,
\* filter text, sort section and order.
FreshMapping == create_mapping(strings, filter, sortColumn, sortOrder)

\* Source rows r1 and r2 compare equal under the current comparator.
SameRank(r1, r2) ==
  /\ ~Before(strings, r1, r2, sortColumn, sortOrder)
  /\ ~Before(strings, r2, r1, sortColumn, sortOrder)

\* C12: whenever rows are read, the proxy's mapping is what a mapping built
\* from nothing over the current list with the current filter and comparator
\* would be: the same source rows, each once and none out of range, and at
\* every place a row of the same rank (rows that compare equal may swap).
\* No row of an earlier list, filter or order is left in it.
C12_ProjectionNeverStale ==
  ReadPoint =>
    /\ Len(MappingNow) = Len(FreshMapping)
    /\ Range(MappingNow) = Range(FreshMapping)
    /\ Range(MappingNow) \subseteq 1..Len(strings)
    /\ \A i \in 1..Len(MappingNow) : SameRank(MappingNow[i], FreshMapping[i])

\* C12 witness: a mapping kept through a filter change and a sort change
\* since the last of at least two replacements, differing in row order from
\* the source list.
C12_Witness ==
  /\ pc = "idle"
  /\ mapped
  /\ Len(installed) >= 2
  /\ filter # <<>>
  /\ sortOrder = DescendingOrder
  /\ Len(mapping) >= 2
  /\ mapping[1] > mapping[2]
  /\ Len(mapping) < Len(strings)

\* ------------------------------------------------------------------ wait()
\* Every StringsTask ends (its run returns on the pool thread whatever the
\* GUI thread does), and a wait() on a task that has ended returns.
FairSpec ==
  /\ Spec
  /\ WF_vars(waitReturns)
  /\ \A t \in TaskIds : WF_vars(taskFinishes(t) \/ taskFails(t))

\* C13: refreshStrings cannot get stuck in task->wait(). Every call that
\* blocks returns to the event loop in the end, given that every task ends.
\* It blocks only when task is set and that task is still running; while it
\* is blocked, either the awaited task can still end by itself or, once it
\* has ended, wait() can return and the new task be launched; and with task
\* unset the call launches the new task in the same step, without blocking.
C13_RefreshNeverStuck ==
  /\ (pc = "waiting") ~> (pc = "idle")
  /\ [][ /\ pc = "waiting" =>
              /\ task # 0
              /\ IF Terminated(task)
                   THEN ENABLED waitReturns
                   ELSE ENABLED (taskFinishes(task) \/ taskFails(task))
         /\ (pc = "idle" /\ pc' = "waiting") =>
              /\ task # 0
              /\ tstate[task] = "running"
         /\ (pc = "idle" /\ task = 0 /\ launched' # launched) =>
              /\ pc' = "idle"
              /\ task' = launched'
              /\ tstate'[task'] = "running"
       ]_vars

\* C13 witness: wait() has returned and the second task was launched while
\* the first task's completion is still queued.
C13_Witness ==
  /\ pc = "idle"
  /\ launched = 2
  /\ task = 2
  /\ tstate[1] # "running"
  /\ tstate[2] = "running"
  /\ Len(events) = 1
  /\ installed = <<>>

\* ------------------------------------------------------------------ frame
\* C14: strings is written only by the assignment in stringSearchFinished,
\* which puts the delivered list in it; refreshStrings, a filter text change,
\* a header click, reads and the tasks leave it as it is. The slot's runs do
\* not overlap: while one run is between its statements no other run starts,
\* and a run starts only from the event loop.
C14_OnlyTheSlotWritesStrings ==
  [][ /\ (strings' # strings \/ installed' # installed) =>
           /\ At("assign")
           /\ strings' = cur.strings
           /\ installed' = Append(installed, cur.id)
      /\ (pc = "handler" /\ pc' = "handler") =>
           /\ cur' = cur
           /\ hstep' \in {hstep, hstep + 1}
      /\ (pc # "handler" /\ pc' = "handler") =>
           /\ pc = "idle"
           /\ hstep' = 1
    ]_vars

\* C14 witness: the slot has just replaced a non-empty list by a different
\* one, a filter being set and a newer task still running.
C14_Witness ==
  /\ At("endResetModel")
  /\ Len(installed) >= 2
  /\ strings = cur.strings
  /\ Len(strings) >= 2
  /\ filter # <<>>
  /\ task # 0
  /\ tstate[task] = "running"

\* C15: the slot changes neither the filter text nor the sort section and
\* order, and when it has replaced the list and is about to clear task, the
\* proxy shows exactly the rows of the delivered list that the filter text
\* set before the replacement accepts, each once, no row before a row the
\* unchanged comparator puts ahead of it.
C15_ReplaceKeepsFilterAndSort ==
  [][ /\ pc = "handler" =>
           /\ filter' = filter
           /\ sortColumn' = sortColumn
           /\ sortOrder' = sortOrder
      /\ At("clearTask") =>
           /\ strings = cur.strings
           /\ Range(MappingNow) = AcceptedRows(cur.strings, filter)
           /\ Len(MappingNow) = Cardinality(AcceptedRows(cur.strings, filter))
           /\ \A i \in 1..Len(MappingNow) : \A j \in i..Len(MappingNow) :
                ~Before(cur.strings, MappingNow[j], MappingNow[i], sortColumn, sortOrder)
    ]_vars

\* C15 witness: with the filter text "x" set, a list was replaced by the
\* one-entry list "abcx"; the proxy shows one row, that entry.
C15_Witness ==
  /\ At("clearTask")
  /\ filter = <<"x">>
  /\ Len(installed) >= 2
  /\ strings = <<EAbcx>>
  /\ Len(MappingNow) = 1
  /\ RowAt(1).string = <<"a", "b", "c", "x">>

\* ------------------------------------------------------------------ defaults
\* The widget as long as nobody types a filter text or clicks a header.
NextDefault ==
  \/ refreshStrings
  \/ waitReturns
  \/ \E t \in TaskIds : taskFinishes(t)
  \/ \E t \in TaskIds : taskFails(t)
  \/ deliver
  \/ beginResetModel
  \/ assignStrings
  \/ endResetModel
  \/ showItemsNumber
  \/ clearTask
  \/ viewRead

SpecDefault == Init /\ [][NextDefault]_vars

\* C16: as long as no filter text was typed and no header clicked, the proxy
\* accepts every entry and sorts by address, ascending: once a list has been
\* installed, rowCount() is the length of strings and the addresses of the
\* rows never decrease from one row to the next.
C16_DefaultsAcceptAllByAddress ==
  (ReadPoint /\ installed # <<>>) =>
    /\ filter = <<>>
    /\ Len(MappingNow) = Len(strings)
    /\ \A i \in 1..(Len(MappingNow) - 1) : RowAt(i).vaddr <= RowAt(i + 1).vaddr

\* C16 witness: the first list installed has four entries that are not in
\* address order; the view shows it, nothing else having happened.
C16_Witness ==
  /\ pc = "idle"
  /\ mapped
  /\ Len(installed) = 1
  /\ Len(strings) = 4
  /\ strings[1].vaddr > strings[2].vaddr
  /\ Len(mapping) = 4
  /\ mapping[1] # 1

SameLetter(a, b) ==
  \/ a = b
  \/ {a, b} \in {{"A", "a"}, {"B", "b"}, {"X", "x"}}

\* Places in text (0 = before the first character) where a match of the one
\* pattern character c can end, having started at a place in from.
EndsOf(c, text, from) ==
  IF c = "*" THEN {j \in 0..Len(text) : \E i \in from : i <= j}
  ELSE IF c = "?" THEN {i + 1 : i \in {k \in from : k < Len(text)}}
  ELSE {i + 1 : i \in {k \in from : k < Len(text) /\ SameLetter(text[k + 1], c)}}

RECURSIVE EndsAfter(_, _, _)
EndsAfter(p, text, from) ==
  IF p = <<>> THEN from ELSE EndsAfter(Tail(p), text, EndsOf(Head(p), text, from))

\* The pattern p (letters, ? for any one character, * for any run) matches
\* some part of text, letters compared without regard to case.
TextMatches(text, p) == EndsAfter(p, text, 0..Len(text)) # {}

\* C18: whenever rows are read, a source row is in the view exactly if the
\* filter text matches its string without regard to case; vaddr, type, length
\* and size play no part, and the empty filter text leaves every row in.
C18_MembershipByTextOnly ==
  ReadPoint =>
    /\ Range(MappingNow) = {i \in 1..Len(strings) : TextMatches(strings[i].string, filter)}
    /\ filter = <<>> => Range(MappingNow) = 1..Len(strings)

\* C18 witness: the filter text "x" leaves exactly the entries "Xa" and "xa"
\* of the four-entry list in the view.
C18_Witness ==
  /\ pc = "idle"
  /\ mapped
  /\ filter = <<"x">>
  /\ Len(strings) = 4
  /\ Len(mapping) = 2
  /\ {RowAt(1), RowAt(2)} = {EUpX, ELowX}

\* ------------------------------------------------------------------ task handle
\* No StringsTask of the widget is running and no completion waits in the
\* event queue.
NoTaskPending ==
  /\ \A t \in TaskIds : tstate[t] # "running"
  /\ events = <<>>

\* C19: outside the slot, task is null exactly when no task the widget
\* launched is still running or has a completion not yet delivered, and the
\* slot sets task to null only while handling the completion of the very
\* task that task refers to.
C19_HandleAgreesWithTasks ==
  [][ /\ pc # "handler" => ((task = 0) <=> NoTaskPending)
      /\ (task # 0 /\ task' = 0) => cur.id = task
    ]_vars

\* ------------------------------------------------------------------ item count
\* C20: the count handed to showItemsNumber is never out of date: once a
\* filter text change has been handled or the slot has passed line 218, and
\* from then on between events, it is the proxy's rowCount() for the filter
\* text and list now in force, that is, the number of entries of strings the
\* filter accepts.
C20_ItemCountNeverStale ==
  ((pc # "handler" \/ At("clearTask")) /\ (mapped \/ installed # <<>>)) =>
    /\ itemsNumber = Len(MappingNow)
    /\ itemsNumber = Cardinality(AcceptedRows(strings, filter))

\* C20 witness: after at least two replacements and a filter text change the
\* count shown is that of a view holding some but not all entries.
C20_Witness ==
  /\ pc = "idle"
  /\ Len(installed) >= 2
  /\ filter # <<>>
  /\ itemsNumber >= 1
  /\ itemsNumber < Len(strings)
  /\ events # <<>>


====
